---- MODULE Spec2Model ----
\* Session store (ContextManager) of the support bot: per-user sessions with a
\* bounded history, aggregate statistics, and a JSON document rewritten by
\* save() after every mutation.  One action per synchronous segment of each
\* async method; an awaited fs call is a separate step that may succeed or fail.
EXTENDS Integers, Sequences, FiniteSets, TLC

\* ---------------------------------------------------------------- bounds
MaxH == 3           \* config.bot.maxHistoryLength ranges over 1..MaxH
MaxCalls == 2       \* ContextManager calls per run when every method is in use
MaxInFlight == 2    \* save() calls awaiting their writeFile at one time
MaxLifeCalls == 3   \* calls per run of the session life cycle
MaxMessages == 3    \* length of the histories handed to generateResponse
MaxExchangeCalls == 4  \* calls per run of one message exchange and /reset

\* ------------------------------------------------------- program constants
SeedContent == 0    \* the placeholder text of the seeded system message
MsPerDay == 24 * 60 * 60 * 1000
StartTime == 1      \* Date.now() when the process starts

UserIds == {1, 2}
Roles == {"user", "assistant", "system"}
Undefined == [undefined |-> TRUE]   \* undefined, where an object is expected
UndefinedStr == "undefined"         \* undefined, where a string is expected
NULL == [null |-> TRUE]
OptionalKeys == {"username", "firstName", "lastName"}

\* msg.chat.id / msg.from of an inbound update: a private chat without a
\* username, or a group chat with a full profile
Contacts ==
  { [chatId |-> 100, userInfo |-> Undefined],
    [chatId |-> 101,
     userInfo |-> [username |-> "neo", first_name |-> "Max", last_name |-> UndefinedStr]] }

\* userInfo?.key
Opt(userInfo, key) == IF userInfo = Undefined THEN UndefinedStr ELSE userInfo[key]

DefaultMemory ==
  [ interests |-> <<"support", "sobriety", "recovery">>,
    preferences |-> [tone |-> "calm", style |-> "warm", crisis_support |-> TRUE],
    goals |-> <<"stay sober", "recover", "manage depression">>,
    communicationStyle |-> "therapeutic_support" ]

\* Partial<userMemory> arguments of updateUserMemory
MemoryPatches ==
  { [communicationStyle |-> "coach"], [goals |-> <<"sleep">>],
    [preferences |-> [tone |-> "firm"]] }

Min(S) == CHOOSE x \in S : \A y \in S : x <= y
Max2(a, b) == IF a >= b THEN a ELSE b
Min2(a, b) == IF a <= b THEN a ELSE b

VARIABLES
  H,              \* config.bot.maxHistoryLength
  now,            \* Date.now()
  disk,           \* the document at dbPath
  doc0,           \* the document at dbPath when the process started
  data,           \* this.data
  isInitialized,  \* this.isInitialized
  initPc,         \* position of initialize()
  writes,         \* save() calls whose writeFile has not completed
  scope,          \* limits of the run: calls made, saves in flight
  ncalls,         \* number of ContextManager calls made so far
  ret,            \* the call made or settled most recently, and its outcome
  created,        \* per user: getUserSession calls that found no session
  appendsFound,   \* addMessage calls that found their session
  appendsOk,      \* addMessage calls that resolved without error
  appended,       \* per user: messages pushed since creation / last clear
  customPrompt,   \* GeminiService.customPrompt
  enableUserMemory, \* config.bot.enableUserMemory
  chat,           \* the last generateResponse: its arguments and the history
                  \* it handed to model.startChat
  exchange        \* the text message handler at work: its position, its user,
                  \* the call it awaits and the message it appended

vars == << H, now, disk, doc0, data, isInitialized, initPc, writes, scope, ncalls, ret,
           created, appendsFound, appendsOk, appended,
           customPrompt, enableUserMemory, chat, exchange >>
ghosts == << created, appendsFound, appendsOk, appended >>
gemini == << customPrompt, enableUserMemory, chat >>

\* ------------------------------------------------------------ documents
Absent == [kind |-> "absent"]
Corrupt == [kind |-> "corrupt"]
\* a file opened with O_TRUNC whose content has not been written in full
Partial == [kind |-> "partial"]
Json(v) == [kind |-> "json", value |-> v]

SeedMessage(t) == [role |-> "system", content |-> SeedContent, timestamp |-> t]

\* mutant: the new database keeps a zero lastReset
EmptyStore_NoReset(t) ==
  [ users |-> << >>,
    statistics |-> [totalUsers |-> 0, totalMessages |-> 0, lastReset |-> 0] ]

EmptyStore(t) ==
  [ users |-> << >>,
    statistics |-> [totalUsers |-> 0, totalMessages |-> 0, lastReset |-> t] ]

\* JSON.stringify drops properties whose value is undefined
StringifySession(s) ==
  [ k \in { f \in DOMAIN s : f \notin OptionalKeys \/ s[f] # UndefinedStr } |-> s[k] ]

Stringify(d) ==
  IF d = NULL THEN Json(NULL)
  ELSE Json([ users |-> [u \in DOMAIN d.users |-> StringifySession(d.users[u])],
              statistics |-> d.statistics ])

Parse(doc) == doc.value

\* a document written by an earlier run of the program
OldStore ==
  [ users |-> (1 :> [ chatId |-> 100, userId |-> 1,
                      history |-> << SeedMessage(0),
                                     [role |-> "user", content |-> 9, timestamp |-> 0] >>,
                      userMemory |-> DefaultMemory,
                      createdAt |-> 0, lastActivity |-> 0 ]),
    statistics |-> [totalUsers |-> 1, totalMessages |-> 1, lastReset |-> 0] ]

InitialDocs == { Absent, Corrupt, Json(NULL), Json(OldStore) }

\* The record of a call: its serial number, method and userId, whether the
\* userId had a session and what the statistics were when it was made, and
\* its outcome: "pending" while it awaits save(), "ok" with the value it
\* returned, or the error it threw.
NoRet ==
  [ id |-> 0, op |-> "none", uid |-> 0, found |-> FALSE, before |-> NULL,
    outcome |-> "none", value |-> Undefined ]
CallOf(id, op, u, found, before) ==
  [ id |-> id, op |-> op, uid |-> u, found |-> found, before |-> before,
    outcome |-> "pending", value |-> Undefined ]
Returned(c, v) == [c EXCEPT !.outcome = "ok", !.value = v]
Threw(c, e) == [c EXCEPT !.outcome = e]
InitializeCallRecord == CallOf(0, "initialize", 0, FALSE, NULL)

Scope(calls, inflight) == [calls |-> calls, inflight |-> inflight]

\* no generateResponse yet
NoChat ==
  [ messages |-> << >>, userMemory |-> NULL, customPrompt |-> << >>, history |-> << >>,
    repeat |-> FALSE ]

\* GeminiService after construction: customPrompt = {}
GeminiInit(flags) ==
  /\ customPrompt = << >>
  /\ enableUserMemory \in flags
  /\ chat = NoChat

\* ContextManager after construction, for a run within the limits sc, over
\* the documents docs
StoreInit(docs, sc) ==
  /\ H \in 1..MaxH
  /\ scope = sc
  /\ now = StartTime
  /\ disk \in docs
  /\ doc0 = disk
  /\ data = NULL
  /\ isInitialized = FALSE
  /\ initPc = "idle"
  /\ writes = {}
  /\ ncalls = 0
  /\ ret = NoRet
  /\ created = [u \in UserIds |-> 0]
  /\ appendsFound = 0
  /\ appendsOk = 0
  /\ appended = [u \in UserIds |-> << >>]

\* no text message has arrived
NoExchange ==
  [ pc |-> "idle", uid |-> 0, call |-> 0, ask |-> 0, failedAt |-> "none" ]

HandlerInit == exchange = NoExchange

\* the state after construction; ENABLE_USER_MEMORY is left at its default
InitOver(docs, sc) == StoreInit(docs, sc) /\ GeminiInit({TRUE}) /\ HandlerInit

\* ------------------------------------------------------- pure helpers
\* Array.prototype.slice(start) with a single argument
Slice(s, start) ==
  LET len == Len(s)
      k == IF start < 0 THEN Max2(len + start, 0) ELSE Min2(start, len)
  IN SubSeq(s, k + 1, len)

\* mutant: findLast instead of find
FindSystem_Last(history) ==
  LET idx == { i \in 1..Len(history) : history[i].role = "system" }
  IN IF idx = {} THEN << >> ELSE << history[CHOOSE i \in idx : \A j \in idx : j <= i] >>

\* history.find(msg => msg.role === 'system'), as a list of zero or one message
FindSystem(history) ==
  LET idx == { i \in 1..Len(history) : history[i].role = "system" }
  IN IF idx = {} THEN << >> ELSE << history[Min(idx)] >>

\* mutant: the trim puts the system message behind the recent messages
TrimHistory_SystemLast(history) ==
  IF Len(history) > H
  THEN Slice(history, -H + 1) \o FindSystem(history)
  ELSE history

\* mutant: the trim keeps the oldest messages and the newest one
TrimHistory_Gap(history) ==
  IF Len(history) > H
  THEN FindSystem(history) \o SubSeq(history, 2, H - 1) \o << history[Len(history)] >>
  ELSE history

\* mutant: the trim forgets the system message
TrimHistory_NoSystem(history) ==
  IF Len(history) > H THEN Slice(history, (-H) + 1) ELSE history

\* mutant: the trim keeps the oldest messages instead of the most recent
TrimHistory_Oldest(history) ==
  IF Len(history) > H THEN SubSeq(history, 1, H) ELSE history

\* the auto-trim of addMessage
TrimHistory(history) ==
  IF Len(history) > H
  THEN FindSystem(history) \o Slice(history, (-H) + 1)
  ELSE history

\* mutant: the isInitialized flag is not looked at
EnsureInitializedThrows_DataOnly == data = NULL

EnsureInitializedThrows == (~isInitialized) \/ data = NULL

HasUser(d, u) == d # NULL /\ u \in DOMAIN d.users

NewSession(c, u, t) ==
  [ chatId |-> c.chatId, userId |-> u,
    username |-> Opt(c.userInfo, "username"),
    firstName |-> Opt(c.userInfo, "first_name"),
    lastName |-> Opt(c.userInfo, "last_name"),
    history |-> << SeedMessage(t) >>,
    userMemory |-> DefaultMemory,
    createdAt |-> t, lastActivity |-> t ]

\* this.data after the synchronous part of getUserSession
SessionCreated(d, c, u, t) ==
  [ users |-> (u :> NewSession(c, u, t)) @@ d.users,
    statistics |-> [d.statistics EXCEPT !.totalUsers = @ + 1] ]

\* mutant: a call that finds the session counts a user all the same
SessionTouched_Counts(d, u, t) ==
  [d EXCEPT !.users[u].lastActivity = t, !.statistics.totalUsers = @ + 1]

\* mutant: a later call stamps the session as created anew
SessionTouched_Restamps(d, u, t) ==
  [d EXCEPT !.users[u].lastActivity = t, !.users[u].createdAt = t]

SessionTouched(d, u, t) == [d EXCEPT !.users[u].lastActivity = t]

\* mutant: the message is appended to the history read from the document
MessageAdded_FromDocument(d, u, m, t) ==
  LET stored == IF disk.kind = "json" /\ HasUser(disk.value, u)
                THEN disk.value.users[u].history
                ELSE d.users[u].history
  IN [d EXCEPT !.users[u].history = TrimHistory(Append(stored, m)),
               !.users[u].lastActivity = t,
               !.statistics.totalMessages = @ + 1]

\* mutant: totalMessages is not incremented
MessageAdded_NoCount(d, u, m, t) ==
  [d EXCEPT !.users[u].history = TrimHistory(Append(@, m)),
            !.users[u].lastActivity = t]

\* this.data after the synchronous part of addMessage
MessageAdded(d, u, m, t) ==
  [d EXCEPT !.users[u].history = TrimHistory(Append(@, m)),
            !.users[u].lastActivity = t,
            !.statistics.totalMessages = @ + 1]

\* mutant: clearHistory deletes the session
HistoryCleared_Deletes(d, u, t) ==
  [d EXCEPT !.users = [v \in (DOMAIN d.users) \ {u} |-> d.users[v]]]

\* mutant: the history is emptied
HistoryCleared_Empty(d, u, t) == [d EXCEPT !.users[u].history = << >>]

HistoryCleared(d, u, t) == [d EXCEPT !.users[u].history = << SeedMessage(t) >>]

\* mutant: a deep merge, which keeps the nested keys the update omits
MergeMemory_Deep(mem, patch) ==
  [ k \in DOMAIN mem \cup DOMAIN patch |->
      IF k \notin DOMAIN patch THEN mem[k]
      ELSE IF k = "preferences" /\ k \in DOMAIN mem
           THEN [ j \in DOMAIN mem[k] \cup DOMAIN patch[k] |->
                    IF j \in DOMAIN patch[k] THEN patch[k][j] ELSE mem[k][j] ]
           ELSE patch[k] ]

\* { ...user.userMemory, ...memory }
MergeMemory(mem, patch) ==
  [ k \in DOMAIN mem \cup DOMAIN patch |->
      IF k \in DOMAIN patch THEN patch[k] ELSE mem[k] ]

MemoryUpdated(d, u, patch) ==
  [d EXCEPT !.users[u].userMemory = MergeMemory(@, patch)]

\* mutant: the cutoff is two milliseconds late
InactiveUserIds_Early(d, daysInactive, t) ==
  LET cutoffTime == t - (daysInactive * MsPerDay)
  IN { u \in DOMAIN d.users : d.users[u].lastActivity < cutoffTime + 2 }

InactiveUserIds(d, daysInactive, t) ==
  LET cutoffTime == t - (daysInactive * MsPerDay)
  IN { u \in DOMAIN d.users : d.users[u].lastActivity < cutoffTime }

\* mutant: the sweep takes the deleted sessions off totalUsers
UsersDeleted_Decrements(d, ids) ==
  [d EXCEPT !.users = [u \in (DOMAIN d.users) \ ids |-> d.users[u]],
            !.statistics.totalUsers = @ - Cardinality(ids)]

\* mutant: the sweep deletes one inactive session per run
UsersDeleted_One(d, ids) ==
  [d EXCEPT !.users = [u \in (DOMAIN d.users) \ (IF ids = {} THEN {} ELSE {Min(ids)})
                         |-> d.users[u]]]

UsersDeleted(d, ids) ==
  [d EXCEPT !.users = [u \in (DOMAIN d.users) \ ids |-> d.users[u]]]

\* ------------------------------------------------------------- save()
CanSave == Cardinality(writes) < scope.inflight

\* mutant: save() serializes the store as it was before the method changed it
Save_Stale(c, d) ==
  writes' = writes \cup { [call |-> c, snapshot |-> Stringify(data), phase |-> "queued"] }

\* save(): JSON.stringify(this.data) is evaluated when writeFile is called
Save(c, d) ==
  writes' = writes \cup { [call |-> c, snapshot |-> Stringify(d), phase |-> "queued"] }

\* ---------------------------------------------------------- initialize()
InitializeCall ==
  /\ initPc = "idle"
  /\ initPc' = "mkdir"
  /\ UNCHANGED << gemini, exchange, H, scope, doc0, now, disk, data, isInitialized, writes, ncalls, ret, ghosts >>

\* await fs.mkdir(...) settles
MkdirDone ==
  /\ initPc = "mkdir"
  /\ initPc' = "read"
  /\ UNCHANGED << gemini, exchange, H, scope, doc0, now, disk, data, isInitialized, writes, ncalls, ret, ghosts >>

MkdirFail ==
  /\ initPc = "mkdir"
  /\ initPc' = "failed"
  /\ ret' = Threw(InitializeCallRecord, "mkdirError")
  /\ UNCHANGED << gemini, exchange, H, scope, doc0, now, disk, data, isInitialized, writes, ncalls, ghosts >>

Readable(doc) == doc.kind = "json"

\* messages after index 0 of the sessions a loaded document holds
LoadedLog(d) ==
  [ u \in UserIds |->
      IF d # NULL /\ HasUser(d, u) THEN Tail(d.users[u].history) ELSE << >> ]

\* await fs.readFile(...) settles and JSON.parse succeeds
ReadParsed ==
  /\ initPc = "read"
  /\ Readable(disk)
  /\ data' = Parse(disk)
  /\ isInitialized' = TRUE
  /\ initPc' = "done"
  /\ ret' = Returned(InitializeCallRecord, Undefined)
  /\ appended' = LoadedLog(Parse(disk))
  /\ UNCHANGED << gemini, exchange, H, scope, doc0, now, disk, writes, ncalls, created, appendsFound, appendsOk >>

\* readFile or JSON.parse throws: a new database is created and saved
ReadFailed ==
  /\ initPc = "read"
  /\ ~Readable(disk)
  /\ data' = EmptyStore(now)
  /\ Save(InitializeCallRecord, EmptyStore(now))
  /\ initPc' = "save"
  /\ UNCHANGED << gemini, exchange, H, scope, doc0, now, disk, isInitialized, ncalls, ret, ghosts >>

\* ------------------------------------------------- ContextManager methods
\* The synchronous part of each method, after ensureInitialized(), as the
\* effect it has: the new this.data, the error thrown ("none" if none),
\* whether it goes on to await save(), and the value returned otherwise.
Effect(d, threw, save, value) ==
  [data |-> d, threw |-> threw, save |-> save, value |-> value]

\* mutant: the session is created again on every call
GetUserSessionSync_Recreates(d, c, u, t) ==
  Effect(SessionCreated(d, c, u, t), "none", TRUE, Undefined)

GetUserSessionSync(d, c, u, t) ==
  IF ~HasUser(d, u)
  THEN Effect(SessionCreated(d, c, u, t), "none", TRUE, Undefined)
  ELSE Effect(SessionTouched(d, u, t), "none", TRUE, Undefined)

\* mutant: totalMessages is incremented before the session is looked up
AddMessageSync_CountsFirst(d, u, m, t) ==
  IF ~HasUser(d, u)
  THEN Effect([d EXCEPT !.statistics.totalMessages = @ + 1], "notFound", FALSE, Undefined)
  ELSE Effect(MessageAdded(d, u, m, t), "none", TRUE, Undefined)

AddMessageSync(d, u, m, t) ==
  IF ~HasUser(d, u)
  THEN Effect(d, "notFound", FALSE, Undefined)
  ELSE Effect(MessageAdded(d, u, m, t), "none", TRUE, Undefined)

GetHistorySync(d, u) ==
  Effect(d, "none", FALSE, IF HasUser(d, u) THEN d.users[u].history ELSE << >>)

\* mutant: clearHistory saves whether or not the session exists
ClearHistorySync_Saves(d, u, t) ==
  IF HasUser(d, u)
  THEN Effect(HistoryCleared(d, u, t), "none", TRUE, Undefined)
  ELSE Effect(d, "none", TRUE, Undefined)

ClearHistorySync(d, u, t) ==
  IF HasUser(d, u)
  THEN Effect(HistoryCleared(d, u, t), "none", TRUE, Undefined)
  ELSE Effect(d, "none", FALSE, Undefined)

UpdateUserMemorySync(d, u, memory) ==
  IF HasUser(d, u)
  THEN Effect(MemoryUpdated(d, u, memory), "none", TRUE, Undefined)
  ELSE Effect(d, "none", FALSE, Undefined)

GetUserMemorySync(d, u) ==
  Effect(d, "none", FALSE, IF HasUser(d, u) THEN d.users[u].userMemory ELSE NULL)

GetStatisticsSync(d) == Effect(d, "none", FALSE, d.statistics)

\* mutant: the sweep saves whether or not it deleted a session
CleanupInactiveUsersSync_AlwaysSaves(d, daysInactive, t) ==
  LET inactiveUserIds == InactiveUserIds(d, daysInactive, t)
  IN Effect(UsersDeleted(d, inactiveUserIds), "none", TRUE, Undefined)

CleanupInactiveUsersSync(d, daysInactive, t) ==
  LET inactiveUserIds == InactiveUserIds(d, daysInactive, t)
  IN Effect(UsersDeleted(d, inactiveUserIds), "none", inactiveUserIds # {}, Undefined)

CallId == ncalls + 1

CanCall == ncalls < scope.calls

\* what the call finds, observed before it runs
Ready == isInitialized /\ data # NULL
Finds(u) == Ready /\ u \in DOMAIN data.users
Misses(u) == Ready /\ u \notin DOMAIN data.users

ThisCall(op, u) ==
  CallOf(CallId, op, u, Finds(u), IF data = NULL THEN NULL ELSE data.statistics)

\* one call of a method: ensureInitialized(), then the synchronous part up to
\* the method's return, throw or await of save()
Call(op, u, e) ==
  /\ CanCall
  /\ ncalls' = CallId
  /\ IF EnsureInitializedThrows
     THEN /\ ret' = Threw(ThisCall(op, u), "uninitialized")
          /\ UNCHANGED << data, writes >>
     ELSE /\ data' = e.data
          /\ IF e.threw # "none"
             THEN ret' = Threw(ThisCall(op, u), e.threw) /\ UNCHANGED writes
             ELSE IF e.save
                  THEN /\ CanSave
                       /\ Save(ThisCall(op, u), e.data)
                       /\ ret' = ThisCall(op, u)
                  ELSE ret' = Returned(ThisCall(op, u), e.value) /\ UNCHANGED writes
  /\ UNCHANGED << H, scope, doc0, now, disk, isInitialized, initPc >>

\* a call made by anyone but the text message handler
Method(op, u, e) == Call(op, u, e) /\ UNCHANGED << gemini, exchange >>

GetUserSession(c, u) ==
  /\ Method("getUserSession", u, GetUserSessionSync(data, c, u, now))
  /\ created' = IF Misses(u) THEN [created EXCEPT ![u] = @ + 1] ELSE created
  /\ appended' = IF Misses(u) THEN [appended EXCEPT ![u] = << >>] ELSE appended
  /\ UNCHANGED << appendsFound, appendsOk >>

\* the caller builds the message: its text is the call's serial number,
\* its timestamp the caller's Date.now()
Message(role) == [role |-> role, content |-> CallId, timestamp |-> now]

AddMessage(u, role) ==
  /\ Method("addMessage", u, AddMessageSync(data, u, Message(role), now))
  /\ appendsFound' = IF Finds(u) THEN appendsFound + 1 ELSE appendsFound
  /\ appended' = IF Finds(u) THEN [appended EXCEPT ![u] = Append(@, Message(role))]
                 ELSE appended
  /\ UNCHANGED << created, appendsOk >>

GetHistory(u) ==
  /\ Method("getHistory", u, GetHistorySync(data, u))
  /\ UNCHANGED ghosts

ClearHistory(u) ==
  /\ Method("clearHistory", u, ClearHistorySync(data, u, now))
  /\ appended' = IF Finds(u) THEN [appended EXCEPT ![u] = << >>] ELSE appended
  /\ UNCHANGED << created, appendsFound, appendsOk >>

UpdateUserMemory(u, memory) ==
  /\ Method("updateUserMemory", u, UpdateUserMemorySync(data, u, memory))
  /\ UNCHANGED ghosts

GetUserMemory(u) ==
  /\ Method("getUserMemory", u, GetUserMemorySync(data, u))
  /\ UNCHANGED ghosts

GetStatistics ==
  /\ Method("getStatistics", 0, GetStatisticsSync(data))
  /\ UNCHANGED ghosts

CleanupInactiveUsers(daysInactive) ==
  /\ Method("cleanupInactiveUsers", 0, CleanupInactiveUsersSync(data, daysInactive, now))
  /\ UNCHANGED ghosts

\* ------------------------------------------------ fs.writeFile of save()
\* writeFile opens the file with O_TRUNC, writes the string, closes, and
\* then settles the promise save() awaits.
WriteOpen(w) ==
  /\ w.phase = "queued"
  /\ writes' = (writes \ {w}) \cup { [w EXCEPT !.phase = "opened"] }
  /\ disk' = Partial
  /\ UNCHANGED << gemini, exchange, H, scope, doc0, now, data, isInitialized, initPc, ncalls, ret, ghosts >>

\* the value a method returns once its save() has resolved
ReturnValue(w) ==
  IF w.call.op = "getUserSession" /\ HasUser(data, w.call.uid)
  THEN data.users[w.call.uid]
  ELSE Undefined

\* the rest of the method after `await this.save()`
Settle(w, outcome) ==
  /\ writes' = writes \ {w}
  /\ ret' = IF outcome = "ok" THEN Returned(w.call, ReturnValue(w))
            ELSE Threw(w.call, outcome)
  /\ IF w.call.op = "initialize"
     THEN /\ isInitialized' = (outcome = "ok")
          /\ initPc' = IF outcome = "ok" THEN "done" ELSE "failed"
     ELSE UNCHANGED << isInitialized, initPc >>
  /\ appendsOk' = IF w.call.op = "addMessage" /\ outcome = "ok" THEN appendsOk + 1 ELSE appendsOk
  /\ UNCHANGED << gemini, exchange, H, scope, doc0, now, data, ncalls, created, appendsFound, appended >>

WriteDone(w) ==
  /\ w.phase = "opened"
  /\ disk' = w.snapshot
  /\ Settle(w, "ok")

\* mutant: save() swallows the write error
WriteFail_Swallows(w) ==
  /\ UNCHANGED disk
  /\ Settle(w, "ok")

\* open fails (the document stays as it was) or a write fails after the
\* truncation (the document stays partial)
WriteFail(w) ==
  /\ UNCHANGED disk
  /\ Settle(w, "writeError")

\* ---------------------------------------------------------- GeminiService
\* Texts are sequences of string tokens, in the order the code concatenates
\* them.
DefaultPersona == "default persona"
AckText == "ack"

\* the contents of ./src/prompt.json, when it parses
PromptFiles ==
  { [ persona |-> "guide", tone |-> "calm", style |-> "short",
      system_instructions |-> << "listen", "no advice" >> ],
    [ persona |-> "", style |-> "short", system_instructions |-> << >> ] }

\* the defaults loadCustomPrompt falls back to
FallbackPrompt ==
  [ persona |-> DefaultPersona, tone |-> "friendly", style |-> "plain",
    system_instructions |-> << >> ]

\* customPrompt.key is truthy
Truthy(key) == key \in DOMAIN customPrompt /\ customPrompt[key] # ""

\* the order of Object.entries(userMemory.preferences)
PreferenceKeys == << "tone", "style", "crisis_support" >>

RECURSIVE Entries(_, _)
\* Object.entries(preferences).map(([key, value]) => `${key}: ${value}`)
Entries(preferences, keys) ==
  IF keys = << >> THEN << >>
  ELSE IF Head(keys) \in DOMAIN preferences
       THEN << Head(keys), ToString(preferences[Head(keys)]) >>
            \o Entries(preferences, Tail(keys))
       ELSE Entries(preferences, Tail(keys))

buildMemoryContext(userMemory) ==
  (IF Len(userMemory.interests) > 0
   THEN << "Interests:" >> \o userMemory.interests ELSE << >>)
  \o (IF Len(userMemory.goals) > 0
      THEN << "Goals:" >> \o userMemory.goals ELSE << >>)
  \o (IF userMemory.communicationStyle # ""
      THEN << "Communication style:", userMemory.communicationStyle >> ELSE << >>)
  \o (IF DOMAIN userMemory.preferences # {}
      THEN << "Preferences:" >> \o Entries(userMemory.preferences, PreferenceKeys)
      ELSE << >>)

\* mutant: the instruction text carries the time at which it is composed
SystemMessage_Stamped(userMemory) ==
  << IF Truthy("persona") THEN customPrompt.persona ELSE DefaultPersona,
     ToString(now) >>

\* the instruction text: persona, tone, style, instructions, user context
SystemMessage(userMemory) ==
  << IF Truthy("persona") THEN customPrompt.persona ELSE DefaultPersona >>
  \o (IF Truthy("tone") THEN << "Tone:", customPrompt.tone >> ELSE << >>)
  \o (IF Truthy("style") THEN << "Style:", customPrompt.style >> ELSE << >>)
  \o (IF /\ "system_instructions" \in DOMAIN customPrompt
         /\ Len(customPrompt.system_instructions) > 0
      THEN << "Instructions:" >> \o customPrompt.system_instructions ELSE << >>)
  \o (IF userMemory # NULL /\ enableUserMemory /\ buildMemoryContext(userMemory) # << >>
      THEN << "User context:" >> \o buildMemoryContext(userMemory) ELSE << >>)

Turn(role, text) == [role |-> role, parts |-> << [text |-> text] >>]

RECURSIVE PushMessages_KeepsSystem(_, _)
\* mutant: system messages are handed on as model turns
PushMessages_KeepsSystem(history, messages) ==
  IF messages = << >> THEN history
  ELSE PushMessages_KeepsSystem(
         Append(history, Turn(IF Head(messages).role = "user" THEN "user" ELSE "model",
                              Head(messages).content)),
         Tail(messages))

RECURSIVE PushMessages(_, _)
\* for (const message of messages): skip system, push the others
PushMessages(history, messages) ==
  IF messages = << >> THEN history
  ELSE IF Head(messages).role = "system"
       THEN PushMessages(history, Tail(messages))
       ELSE PushMessages(
              Append(history, Turn(IF Head(messages).role = "user" THEN "user" ELSE "model",
                                   Head(messages).content)),
              Tail(messages))

prepareConversationHistory(messages, userMemory) ==
  PushMessages(<< Turn("user", SystemMessage(userMemory)), Turn("model", AckText) >>,
               messages)

\* loadCustomPrompt: the file is read and parsed
LoadCustomPromptParsed(file) ==
  /\ customPrompt' = file
  /\ UNCHANGED << enableUserMemory, chat, exchange, H, now, disk, doc0, data, isInitialized,
                  initPc, writes, scope, ncalls, ret, ghosts >>

\* loadCustomPrompt: readFile or JSON.parse throws
LoadCustomPromptFailed ==
  /\ customPrompt' = FallbackPrompt
  /\ UNCHANGED << enableUserMemory, chat, exchange, H, now, disk, doc0, data, isInitialized,
                  initPc, writes, scope, ncalls, ret, ghosts >>

\* generateResponse, up to model.startChat({ history })
ChatStarted(messages, userMemory) ==
  [ messages |-> messages, userMemory |-> userMemory,
    customPrompt |-> customPrompt,
    history |-> prepareConversationHistory(messages, userMemory),
    \* the call before this one had the same arguments and prompt
    repeat |-> /\ chat.history # << >>
               /\ chat.messages = messages
               /\ chat.userMemory = userMemory
               /\ chat.customPrompt = customPrompt ]

GenerateResponse(messages, userMemory) ==
  /\ chat' = ChatStarted(messages, userMemory)
  /\ UNCHANGED << customPrompt, enableUserMemory, exchange, H, now, disk, doc0, data,
                  isInitialized, initPc, writes, scope, ncalls, ret, ghosts >>

\* the arguments of generateResponse: what getHistory and getUserMemory return
ChatMessages ==
  { [role |-> "user", content |-> 7, timestamp |-> 0],
    [role |-> "assistant", content |-> 8, timestamp |-> 0],
    [role |-> "system", content |-> 9, timestamp |-> 0] }
Histories == UNION { [1..n -> ChatMessages] : n \in 0..MaxMessages }
EmptyMemory ==
  [ interests |-> << >>, preferences |-> << >>, goals |-> << >>,
    communicationStyle |-> "" ]
Memories == { NULL, DefaultMemory, EmptyMemory }

\* ------------------------------------- bot.on('message'): a text message
\* The handler awaits each ContextManager call before it makes the next one;
\* a call that throws takes it to its catch block, which makes no call.
Awaited == \A w \in writes : w.call.id # exchange.call

\* the handler after the call it has just made: awaiting it, or caught
Advance(pc, stage) ==
  IF ret'.outcome \in {"pending", "ok"}
  THEN [exchange EXCEPT !.pc = pc, !.call = CallId]
  ELSE [exchange EXCEPT !.pc = "caught", !.failedAt = stage]

\* the message arrives: getUserSession(chatId, userId, msg.from)
MessageStart(c, u) ==
  /\ exchange.pc = "idle"
  /\ Call("getUserSession", u, GetUserSessionSync(data, c, u, now))
  /\ created' = IF Misses(u) THEN [created EXCEPT ![u] = @ + 1] ELSE created
  /\ appended' = IF Misses(u) THEN [appended EXCEPT ![u] = << >>] ELSE appended
  /\ exchange' = [Advance("session", "session") EXCEPT !.uid = u]
  /\ UNCHANGED << gemini, appendsFound, appendsOk >>

\* addMessage(userId, { role: 'user', content: text, timestamp: Date.now() })
MessageAppendUser ==
  /\ exchange.pc = "session" /\ Awaited
  /\ Call("addMessage", exchange.uid,
          AddMessageSync(data, exchange.uid, Message("user"), now))
  /\ appendsFound' = IF Finds(exchange.uid) THEN appendsFound + 1 ELSE appendsFound
  /\ appended' = IF Finds(exchange.uid)
                 THEN [appended EXCEPT ![exchange.uid] = Append(@, Message("user"))]
                 ELSE appended
  /\ exchange' = [Advance("userMsg", "append") EXCEPT !.ask = CallId]
  /\ UNCHANGED << gemini, created, appendsOk >>

\* bot.sendChatAction rejects
MessageTypingFails ==
  /\ exchange.pc = "userMsg" /\ Awaited
  /\ exchange' = [exchange EXCEPT !.pc = "caught", !.failedAt = "typing"]
  /\ UNCHANGED << gemini, H, now, disk, doc0, data, isInitialized, initPc, writes,
                  scope, ncalls, ret, ghosts >>

\* getUserMemory, getHistory, and generateResponse up to chat.sendMessage;
\* generateResponse throws at once when the history is empty
MessageGenerate ==
  /\ exchange.pc = "userMsg" /\ Awaited
  /\ LET userMemory == GetUserMemorySync(data, exchange.uid).value
         history == GetHistorySync(data, exchange.uid).value
     IN /\ chat' = ChatStarted(history, userMemory)
        /\ exchange' = IF history = << >>
                       THEN [exchange EXCEPT !.pc = "caught", !.failedAt = "generate"]
                       ELSE [exchange EXCEPT !.pc = "generating"]
  /\ UNCHANGED << customPrompt, enableUserMemory, H, now, disk, doc0, data,
                  isInitialized, initPc, writes, scope, ncalls, ret, ghosts >>

\* the generation resolves:
\* addMessage(userId, { role: 'assistant', content: response.text, ... })
MessageReply ==
  /\ exchange.pc = "generating"
  /\ Call("addMessage", exchange.uid,
          AddMessageSync(data, exchange.uid, Message("assistant"), now))
  /\ appendsFound' = IF Finds(exchange.uid) THEN appendsFound + 1 ELSE appendsFound
  /\ appended' = IF Finds(exchange.uid)
                 THEN [appended EXCEPT ![exchange.uid] = Append(@, Message("assistant"))]
                 ELSE appended
  /\ exchange' = Advance("reply", "reply")
  /\ UNCHANGED << gemini, created, appendsOk >>

\* mutant: the handler stores an apology as the reply when the generation fails
MessageGenerationFails_Replies ==
  /\ exchange.pc = "generating"
  /\ Call("addMessage", exchange.uid,
          AddMessageSync(data, exchange.uid, Message("assistant"), now))
  /\ appendsFound' = IF Finds(exchange.uid) THEN appendsFound + 1 ELSE appendsFound
  /\ appended' = IF Finds(exchange.uid)
                 THEN [appended EXCEPT ![exchange.uid] = Append(@, Message("assistant"))]
                 ELSE appended
  /\ exchange' = [exchange EXCEPT !.pc = "caught", !.failedAt = "generate"]
  /\ UNCHANGED << gemini, created, appendsOk >>

\* the generation rejects: generateResponse rethrows, and the handler's catch
\* logs the error and sends an apology to the chat
MessageGenerationFails ==
  /\ exchange.pc = "generating"
  /\ exchange' = [exchange EXCEPT !.pc = "caught", !.failedAt = "generate"]
  /\ UNCHANGED << gemini, H, now, disk, doc0, data, isInitialized, initPc, writes,
                  scope, ncalls, ret, ghosts >>

\* the reply is stored: bot.sendMessage(chatId, response.text, ...)
MessageDone ==
  /\ exchange.pc = "reply" /\ Awaited
  /\ exchange' = [exchange EXCEPT !.pc = "done"]
  /\ UNCHANGED << gemini, H, now, disk, doc0, data, isInitialized, initPc, writes,
                  scope, ncalls, ret, ghosts >>

\* ---------------------------------------------------------------- clock
\* Date.now() is in milliseconds.  The callers pass daysInactive = 30, whose
\* 2 592 000 000 ms do not fit TLC's 32-bit integers; the cutoff is
\* linear in daysInactive, and the model sweeps with daysInactive = 1.
SweepDays == {1}

\* the instants at which the clock is read: around the start of the process
\* and around each sweep threshold counted from the start
TimePoints ==
  { StartTime, StartTime + 1 } \cup
  { StartTime + (d * MsPerDay) + k : d \in SweepDays, k \in {-1, 0, 1} }

Tick(t) ==
  /\ t > now
  /\ now' = t
  /\ UNCHANGED << gemini, exchange, H, scope, doc0, disk, data, isInitialized, initPc, writes, ncalls, ret, ghosts >>

\* Every method in use, over every kind of stored document; the clock is
\* read at the start, a millisecond later and a day and a millisecond later.
Init == InitOver(InitialDocs, Scope(MaxCalls, MaxInFlight))

Next ==
  \/ InitializeCall
  \/ MkdirDone
  \/ MkdirFail
  \/ ReadParsed
  \/ ReadFailed
  \/ \E c \in Contacts, u \in UserIds : GetUserSession(c, u)
  \/ \E u \in UserIds, role \in Roles : AddMessage(u, role)
  \/ \E u \in UserIds : GetHistory(u)
  \/ \E u \in UserIds : ClearHistory(u)
  \/ \E u \in UserIds, memory \in MemoryPatches : UpdateUserMemory(u, memory)
  \/ \E u \in UserIds : GetUserMemory(u)
  \/ GetStatistics
  \/ \E daysInactive \in SweepDays : CleanupInactiveUsers(daysInactive)
  \/ \E w \in writes : WriteOpen(w)
  \/ \E w \in writes : WriteDone(w)
  \/ \E w \in writes : WriteFail(w)
  \/ \E t \in { StartTime + 1, StartTime + MsPerDay + 1 } : Tick(t)

Spec == Init /\ [][Next]_vars

\* The same calls when no mkdir and no writeFile fails: every save that is
\* started completes.
NextNoFailure ==
  \/ InitializeCall
  \/ MkdirDone
  \/ ReadParsed
  \/ ReadFailed
  \/ \E c \in Contacts, u \in UserIds : GetUserSession(c, u)
  \/ \E u \in UserIds, role \in Roles : AddMessage(u, role)
  \/ \E u \in UserIds : GetHistory(u)
  \/ \E u \in UserIds : ClearHistory(u)
  \/ \E u \in UserIds, memory \in MemoryPatches : UpdateUserMemory(u, memory)
  \/ \E u \in UserIds : GetUserMemory(u)
  \/ GetStatistics
  \/ \E daysInactive \in SweepDays : CleanupInactiveUsers(daysInactive)
  \/ \E w \in writes : WriteOpen(w)
  \/ \E w \in writes : WriteDone(w)
  \/ \E t \in { StartTime + 1, StartTime + MsPerDay + 1 } : Tick(t)

SpecNoFailure == Init /\ [][NextNoFailure]_vars

\* The life cycle of sessions: creation, messages, the passing of time and
\* the inactivity sweep, from a store that starts empty.
InitLife == InitOver({Absent, Corrupt}, Scope(MaxLifeCalls, 1))

NextLife ==
  \/ InitializeCall
  \/ MkdirDone
  \/ MkdirFail
  \/ ReadFailed
  \/ \E c \in Contacts, u \in UserIds : GetUserSession(c, u)
  \/ \E u \in UserIds : AddMessage(u, "user")
  \/ \E daysInactive \in SweepDays : CleanupInactiveUsers(daysInactive)
  \/ \E w \in writes : WriteOpen(w)
  \/ \E w \in writes : WriteDone(w)
  \/ \E w \in writes : WriteFail(w)
  \/ \E t \in TimePoints : Tick(t)

SpecLife == InitLife /\ [][NextLife]_vars

\* Prompt assembly by itself: the store is left as constructed, the prompt
\* file is loaded any number of times, time passes, and generateResponse is
\* called with every history and memory.
InitPrompt ==
  StoreInit({Absent}, Scope(0, 0)) /\ H = 1 /\ GeminiInit(BOOLEAN) /\ HandlerInit

NextPrompt ==
  \/ \E file \in PromptFiles : LoadCustomPromptParsed(file)
  \/ LoadCustomPromptFailed
  \/ \E messages \in Histories, userMemory \in Memories :
       GenerateResponse(messages, userMemory)
  \/ Tick(StartTime + 1)

SpecPrompt == InitPrompt /\ [][NextPrompt]_vars

\* One text message exchange and the /reset command, when no mkdir and no
\* writeFile fails.
InitExchange == InitOver({Absent, Json(OldStore)}, Scope(MaxExchangeCalls, MaxInFlight))

NextExchange ==
  \/ InitializeCall
  \/ MkdirDone
  \/ ReadParsed
  \/ ReadFailed
  \/ \E c \in Contacts, u \in UserIds : MessageStart(c, u)
  \/ MessageAppendUser
  \/ MessageTypingFails
  \/ MessageGenerate
  \/ MessageReply
  \/ MessageGenerationFails
  \/ MessageDone
  \/ \E u \in UserIds : ClearHistory(u)
  \/ \E w \in writes : WriteOpen(w)
  \/ \E w \in writes : WriteDone(w)
  \/ Tick(StartTime + 1)

SpecExchange == InitExchange /\ [][NextExchange]_vars

\* ====================================================== checked properties
Sessions == IF data = NULL THEN {} ELSE DOMAIN data.users
HistoryOf(u) == data.users[u].history
Statistics == data.statistics
LastN(s, n) == SubSeq(s, Len(s) - n + 1, Len(s))
Last(s) == s[Len(s)]
SystemIndexes(h) == { i \in 1..Len(h) : h[i].role = "system" }

\* the step is a call of method op for user u
IsCall(op, u) == ncalls' = ncalls + 1 /\ ret'.op = op /\ ret'.uid = u
\* the last call made was addMessage for a user with a session, and no call
\* has been made since
JustAppended(u) ==
  /\ ret.op = "addMessage" /\ ret.uid = u /\ ret.found
  /\ ret.id = ncalls /\ ret.outcome \in {"pending", "ok", "writeError"}
\* the history of u as addMessage has pushed onto it, before the trim
Pushed(u) == Append(HistoryOf(u), Last(appended'[u]))
\* the step is an addMessage for u whose push makes the history exceed H
TrimStep(u) == IsCall("addMessage", u) /\ Finds(u) /\ Len(HistoryOf(u)) + 1 > H

\* C1: whatever the configured maximum H >= 1, the history of a session is
\* at most H long once an addMessage on it has run.
C1_BoundedHistory ==
  \A u \in UserIds : JustAppended(u) => Len(HistoryOf(u)) <= H

\* C2: every session of the store has a history that is not empty and whose
\* first message has role system.
C2_SystemFirst ==
  \A u \in Sessions : Len(HistoryOf(u)) >= 1 /\ HistoryOf(u)[1].role = "system"

\* a session whose history an addMessage has trimmed, with H >= 2
C2_Witness ==
  \E u \in Sessions :
    /\ H >= 2
    /\ JustAppended(u)
    /\ Len(appended[u]) > Len(HistoryOf(u)) - 1
    /\ HistoryOf(u)[1].role = "system"

\* C3: with H >= 2, when an addMessage makes a history exceed H and the
\* history holds a single system message, at index 0, the history becomes
\* that message followed by the H - 1 messages appended last, in the order
\* they were appended.
C3_TrimKeepsRecent ==
  [][ \A u \in UserIds :
        ( /\ TrimStep(u)
          /\ H >= 2
          /\ SystemIndexes(Pushed(u)) = {1} )
        => HistoryOf(u)' = << HistoryOf(u)[1] >> \o LastN(appended'[u], H - 1) ]_vars

\* H = 3: seed, hi, hello, bye has become seed, hello, bye
C3_Witness ==
  \E u \in Sessions :
    /\ H = 3
    /\ JustAppended(u)
    /\ Len(appended[u]) = 3
    /\ SystemIndexes(HistoryOf(u)) = {1}
    /\ Tail(HistoryOf(u)) = << appended[u][2], appended[u][3] >>

\* C4, as claimed: when addMessage trims a history that holds more than one
\* system message, the message at the front of the trimmed history is the
\* most recent system message of the history.
C4_KeepsMostRecentSystem ==
  [][ \A u \in UserIds :
        (TrimStep(u) /\ Cardinality(SystemIndexes(Pushed(u))) > 1)
        => LET last == CHOOSE i \in SystemIndexes(Pushed(u)) :
                         \A j \in SystemIndexes(Pushed(u)) : j <= i
           IN HistoryOf(u)'[1] = Pushed(u)[last] ]_vars

\* C4, amended: when addMessage trims a history that holds more than one
\* system message, the message at the front of the trimmed history is the
\* earliest system message of the history, not the most recent one.
C4_KeepsEarliestSystem ==
  [][ \A u \in UserIds :
        (TrimStep(u) /\ Cardinality(SystemIndexes(Pushed(u))) > 1)
        => \E i \in SystemIndexes(Pushed(u)) :
             /\ \A j \in SystemIndexes(Pushed(u)) : i <= j
             /\ HistoryOf(u)'[1] = Pushed(u)[i] ]_vars

\* a trimmed history that starts with the seed and holds a later system message
C4_Witness ==
  \E u \in Sessions :
    /\ H >= 2
    /\ JustAppended(u)
    /\ Len(appended[u]) > Len(HistoryOf(u)) - 1
    /\ HistoryOf(u)[1].content = SeedContent
    /\ \E i \in 2..Len(HistoryOf(u)) : HistoryOf(u)[i].role = "system"

TotalCreated == created[1] + created[2]

\* the statistics the store started from
BaseStatistics ==
  IF doc0.kind = "json" /\ doc0.value # NULL
  THEN doc0.value.statistics
  ELSE [totalUsers |-> 0, totalMessages |-> 0, lastReset |-> 0]

\* a session without its lastActivity
Untouched(s) == [k \in (DOMAIN s) \ {"lastActivity"} |-> s[k]]

\* C5: getUserSession called twice in a row for a userId that had no session
\* creates one session and adds 1 to totalUsers in all: the second call adds
\* no session, leaves totalUsers, the history and the memory as the first
\* call left them, and returns that session.
C5_SecondCallReuses ==
  [][ \A u \in UserIds :
        /\ ( /\ ret.op = "getUserSession" /\ ret.uid = u /\ ~ret.found
             /\ ret.outcome = "ok" /\ ret.id = ncalls
             /\ IsCall("getUserSession", u) )
           => /\ data'.statistics.totalUsers = ret.before.totalUsers + 1
              /\ DOMAIN data'.users = DOMAIN data.users
              /\ Untouched(data'.users[u]) = Untouched(ret.value)
              /\ data'.users[u].history = << SeedMessage(data.users[u].createdAt) >>
              /\ data'.users[u].userMemory = DefaultMemory
        /\ ( /\ ret.op = "getUserSession" /\ ret.uid = u /\ ret.found
             /\ ret.outcome = "pending" /\ ret.id = ncalls
             /\ ret'.id = ret.id /\ ret'.outcome = "ok" )
           => ret'.value = data.users[u] ]_vars

\* an empty store, then two calls for the same userId, both settled
C5_Witness ==
  /\ doc0 = Absent /\ ncalls = 2 /\ writes = {}
  /\ ret.id = 2 /\ ret.op = "getUserSession" /\ ret.found /\ ret.outcome = "ok"
  /\ created[ret.uid] = 1
  /\ Statistics.totalUsers = 1
  /\ ret.value = data.users[ret.uid]

\* C6: after initialize() on an empty store, totalUsers is the number of
\* getUserSession calls that found no session for their userId, a userId
\* created again after a sweep counting again; the sweep never lowers it.
C6_TotalUsersCountsCreations ==
  (data # NULL /\ doc0 \in {Absent, Corrupt}) => Statistics.totalUsers = TotalCreated

\* a userId swept and created a second time
C6_Witness ==
  \E u \in Sessions : created[u] = 2 /\ Statistics.totalUsers = 2 /\ Sessions = {u}

AppendInFlight == \E w \in writes : w.call.op = "addMessage"

\* C7, as claimed: totalMessages counts the addMessage calls that completed
\* successfully; one that failed, on a missing session or on the write of
\* its save, left it as it was.
C7_CountsSuccessfulAppends ==
  (data # NULL /\ ~AppendInFlight)
  => Statistics.totalMessages = BaseStatistics.totalMessages + appendsOk

\* C7, amended: totalMessages counts the addMessage calls that found their
\* session: each adds 1 before its save, and the 1 stays when the write of
\* the save fails; a call that finds no session adds nothing.
C7_CountsAppendsThatFoundSession ==
  data # NULL => Statistics.totalMessages = BaseStatistics.totalMessages + appendsFound

\* an addMessage whose save failed, counted all the same
C7_Witness ==
  /\ ret.op = "addMessage" /\ ret.outcome = "writeError" /\ ret.id = ncalls
  /\ Statistics.totalMessages = ret.before.totalMessages + 1
  /\ appendsFound = appendsOk + 1

\* C8: addMessage for a userId without a session throws, and changes neither
\* the store nor the document, and starts no save.
C8_AppendWithoutSession ==
  [][ \A u \in UserIds :
        (IsCall("addMessage", u) /\ Misses(u))
        => /\ ret'.outcome = "notFound"
           /\ data' = data
           /\ writes' = writes
           /\ disk' = disk ]_vars

C8_Witness ==
  /\ Ready
  /\ ret.op = "addMessage" /\ ret.outcome = "notFound" /\ ret.id = ncalls
  /\ ret.uid \notin Sessions
  /\ Statistics = ret.before

\* C9: a method called while initialize() has not completed, suspended in
\* its mkdir, its read or its first save included, throws the uninitialized
\* error and changes neither the store nor the document.
C9_UninitializedUse ==
  [][ (ncalls' = ncalls + 1 /\ ~isInitialized)
      => /\ ret'.outcome = "uninitialized"
         /\ data' = data
         /\ writes' = writes
         /\ disk' = disk ]_vars

\* a call made while initialize() awaits its first save
C9_Witness ==
  /\ initPc = "save" /\ data # NULL /\ ~isInitialized
  /\ ret.id = ncalls /\ ret.op = "addMessage" /\ ret.outcome = "uninitialized"

\* C10, as claimed: initialize() that finds the document absent or
\* unparseable does not fail.
C10_RecoveryNeverFails ==
  (doc0 \in {Absent, Corrupt} /\ data # NULL) => initPc # "failed"

\* C10, amended: initialize() that finds the document absent or unparseable
\* sets an empty store (no sessions, both counters 0, lastReset the current
\* time) and saves it; when the write succeeds initialize() completes, the
\* document being that empty store; when the write fails initialize() fails
\* with the write error and the manager stays uninitialized.
C10_RecoveryOfEmptyStore ==
  [][ /\ (initPc = "read" /\ doc0 \in {Absent, Corrupt} /\ initPc' # "read")
         => /\ initPc' = "save"
            /\ DOMAIN data'.users = {}
            /\ data'.statistics = [totalUsers |-> 0, totalMessages |-> 0, lastReset |-> now]
            /\ ~isInitialized'
      /\ (initPc = "save" /\ initPc' = "done")
         => /\ isInitialized'
            /\ data' = data
            /\ disk' = Json(data)
            /\ DOMAIN data.users = {}
            /\ data.statistics.totalUsers = 0 /\ data.statistics.totalMessages = 0
      /\ (initPc = "save" /\ initPc' = "failed")
         => /\ ~isInitialized'
            /\ ret'.op = "initialize" /\ ret'.outcome = "writeError" ]_vars

\* initialize() has completed on an unparseable document
C10_Witness ==
  /\ doc0 = Corrupt /\ initPc = "done" /\ isInitialized
  /\ ret.op = "initialize" /\ ret.outcome = "ok"
  /\ Sessions = {}
  /\ disk = Json(data)

\* the methods that await save() after changing this.data
MutatingOps ==
  { "getUserSession", "addMessage", "clearHistory", "updateUserMemory",
    "cleanupInactiveUsers" }

\* the step ends the save w: its call no longer awaits a write
Settles(w) == \A x \in writes' : x.call.id # w.call.id
\* the step ends the save w of a mutating method without its document written
FailsWrite(w) == Settles(w) /\ w.call.op \in MutatingOps /\ disk' # w.snapshot

\* C11, as claimed: after the save of a mutating method has failed, the
\* in-memory store and the document differ.
C11_StoreAndDocumentDiffer ==
  [][ \A w \in writes : FailsWrite(w) => disk' # Stringify(data') ]_vars

\* C11, amended: when the write of a mutating method's save fails, the method
\* throws the write error; the in-memory store is not rolled back (with no
\* call made since, it is still the store the failed save serialized) and the
\* failure writes nothing more to the document, so the two differ unless the
\* document already held exactly the mutated store.
C11_WriteFailureKeepsMutation ==
  [][ \A w \in writes :
        FailsWrite(w)
        => /\ ret' = Threw(w.call, "writeError")
           /\ data' = data
           /\ disk' = disk
           /\ w.call.id = ncalls
              => /\ Stringify(data') = w.snapshot
                 /\ disk' # Stringify(data') ]_vars

\* an addMessage whose save failed: the message is in the store, not in the
\* document
C11_Witness ==
  /\ ret.op = "addMessage" /\ ret.outcome = "writeError" /\ ret.id = ncalls
  /\ writes = {}
  /\ Last(HistoryOf(ret.uid)).content = ret.id
  /\ disk.kind = "json" /\ disk.value # NULL
  /\ ret.uid \in DOMAIN disk.value.users
  /\ Last(disk.value.users[ret.uid].history).content # ret.id


\* C12: the document is replaced atomically: at no time does a load of the
\* document find it truncated or written in part.
C12_AtomicPersist == disk # Partial

\* the step completes the save w of op, made with no other save in flight and
\* no call made since
CompletesAlone(w, ops) ==
  /\ Settles(w) /\ w.call.op \in ops
  /\ writes = {w} /\ w.call.id = ncalls
  /\ ret'.id = w.call.id /\ ret'.outcome = "ok"

\* C13: when getUserSession (creating or refreshing), addMessage, clearHistory
\* or updateUserMemory on an existing session completes, having run alone and
\* its write not having failed, the document is the serialization of the whole
\* in-memory store, and loading it gives back a store that serializes to the
\* same document.
C13_FullPersist ==
  [][ \A w \in writes :
        CompletesAlone(w, {"getUserSession", "addMessage", "clearHistory",
                           "updateUserMemory"})
        => /\ disk' = Stringify(data')
           /\ DOMAIN Parse(disk').users = DOMAIN data'.users
           /\ Parse(disk').statistics = data'.statistics
           /\ Stringify(Parse(disk')) = disk' ]_vars

\* a session created and a message appended to it, both persisted
C13_Witness ==
  /\ H >= 2 /\ ncalls = 2 /\ writes = {}
  /\ ret.op = "addMessage" /\ ret.outcome = "ok" /\ ret.id = 2
  /\ created[ret.uid] = 1
  /\ disk = Stringify(data)
  /\ Len(Parse(disk).users[ret.uid].history) = 2
  /\ Parse(disk).statistics.totalMessages = Statistics.totalMessages

\* the history of u in a document
DocHistory(doc, u) == doc.value.users[u].history
Contents(h) == { h[i].content : i \in 1..Len(h) }

\* Two addMessage calls for u were in flight together, no call has been made
\* since the later of them, the write of one has completed, and the step
\* completes the write of the other, w.
RaceEnds(u, w) ==
  /\ writes = {w}
  /\ Max2(ret.id, w.call.id) = ncalls
  /\ w.call.op = "addMessage" /\ w.call.uid = u /\ w.call.found
  /\ ret.op = "addMessage" /\ ret.uid = u /\ ret.found
  /\ ret.outcome = "ok" /\ ret.id # w.call.id
  /\ Settles(w) /\ ret'.outcome = "ok"

C15_ShallowMerge ==
  [][ \A u \in UserIds :
        (IsCall("updateUserMemory", u) /\ Finds(u))
        => /\ \E memory \in MemoryPatches :
                /\ DOMAIN data'.users[u].userMemory = DOMAIN data.users[u].userMemory
                /\ \A k \in DOMAIN data.users[u].userMemory :
                     data'.users[u].userMemory[k] =
                       IF k \in DOMAIN memory THEN memory[k]
                       ELSE data.users[u].userMemory[k]
           /\ data'.users[u].history = data.users[u].history
           /\ data'.users[u].createdAt = data.users[u].createdAt
           /\ data'.statistics = data.statistics
           /\ DOMAIN data'.users = DOMAIN data.users ]_vars

\* the preferences replaced whole by an update that holds only a tone
C15_Witness ==
  \E u \in Sessions :
    /\ ret.op = "updateUserMemory" /\ ret.uid = u /\ ret.found /\ ret.id = ncalls
    /\ data.users[u].userMemory.preferences = [tone |-> "firm"]
    /\ data.users[u].userMemory.goals = DefaultMemory.goals
    /\ data.users[u].userMemory.communicationStyle = DefaultMemory.communicationStyle

\* C16: clearHistory on an existing session, whatever its history, leaves a
\* history of exactly one message, of role system, and leaves the memory,
\* createdAt, totalUsers and totalMessages unchanged.
C16_ClearResetsToSeed ==
  [][ \A u \in UserIds :
        (IsCall("clearHistory", u) /\ Finds(u))
        => /\ Len(HistoryOf(u)') = 1
           /\ HistoryOf(u)'[1].role = "system"
           /\ data'.users[u].userMemory = data.users[u].userMemory
           /\ data'.users[u].createdAt = data.users[u].createdAt
           /\ data'.statistics.totalUsers = data.statistics.totalUsers
           /\ data'.statistics.totalMessages = data.statistics.totalMessages
           /\ DOMAIN data'.users = DOMAIN data.users ]_vars

\* the stored session of two messages, cleared: one fresh system message,
\* the message counter still 1
C16_Witness ==
  /\ doc0 = Json(OldStore)
  /\ ret.op = "clearHistory" /\ ret.uid = 1 /\ ret.found /\ ret.id = ncalls
  /\ HistoryOf(1) = << SeedMessage(now) >>
  /\ Statistics.totalMessages = 1

\* what each reading or no-op method returns for a userId without a session
MissValue(op) ==
  IF op = "getHistory" THEN << >>
  ELSE IF op = "getUserMemory" THEN NULL
  ELSE Undefined

\* C17: for a userId without a session, getHistory returns the empty
\* sequence, getUserMemory returns null, clearHistory and updateUserMemory
\* return without error; none of them changes the store (no session, no
\* counter), starts a save or touches the document.
C17_MissingSessionNoOps ==
  [][ \A u \in UserIds :
        \A op \in {"getHistory", "getUserMemory", "clearHistory", "updateUserMemory"} :
          (IsCall(op, u) /\ Misses(u))
          => /\ ret'.outcome = "ok"
             /\ ret'.value = MissValue(op)
             /\ data' = data
             /\ writes' = writes
             /\ disk' = disk ]_vars

\* getUserMemory has returned null for a userId without a session
C17_Witness ==
  /\ Ready
  /\ ret.op = "getUserMemory" /\ ret.id = ncalls /\ ret.outcome = "ok"
  /\ ret.uid \notin Sessions
  /\ ret.value = NULL
  /\ Statistics = ret.before

\* C18: every method that finds the session of its userId, reading or
\* changing it, sets the session's lastActivity to the current time.
C18_TouchSetsLastActivity ==
  [][ \A u \in UserIds :
        \A op \in {"getUserSession", "addMessage", "clearHistory",
                   "updateUserMemory", "getHistory", "getUserMemory"} :
          (IsCall(op, u) /\ Finds(u)) => data'.users[u].lastActivity = now ]_vars

\* the step is a sweep, made on an initialized store
SweepStep == IsCall("cleanupInactiveUsers", 0) /\ Ready
\* the threshold D of the sweeps, in milliseconds
SweepMs == Min(SweepDays) * MsPerDay

\* C19: a sweep with threshold D run at T + D - 1 keeps a session whose
\* lastActivity is T, and one run at T + D + 1 deletes it.
C19_SweepBoundary ==
  [][ \A u \in UserIds :
        (SweepStep /\ u \in DOMAIN data.users)
        => /\ (now = data.users[u].lastActivity + SweepMs - 1) => u \in DOMAIN data'.users
           /\ (now = data.users[u].lastActivity + SweepMs + 1) => u \notin DOMAIN data'.users ]_vars

\* a session created at the start and swept a day and a millisecond later
C19_Witness ==
  \E u \in UserIds :
    /\ ret.op = "cleanupInactiveUsers" /\ ret.id = ncalls /\ ncalls = 2
    /\ now = StartTime + SweepMs + 1
    /\ created[u] = 1 /\ TotalCreated = 1
    /\ Sessions = {}

\* C20: a sweep deletes exactly the sessions whose lastActivity is before
\* now - D, all of them at once; every other session is left as it was, and
\* so are both counters.
C20_SweepDeletesExactlyInactive ==
  [][ SweepStep
      => /\ DOMAIN data'.users =
              { u \in DOMAIN data.users : ~(data.users[u].lastActivity < now - SweepMs) }
         /\ \A u \in DOMAIN data'.users : data'.users[u] = data.users[u]
         /\ data'.statistics = data.statistics ]_vars

\* two sessions created a millisecond apart; the sweep has deleted the
\* older and kept the newer
C20_Witness ==
  /\ ret.op = "cleanupInactiveUsers" /\ ret.id = ncalls /\ ncalls = 3
  /\ created[1] = 1 /\ created[2] = 1
  /\ Cardinality(Sessions) = 1
  /\ \A u \in Sessions : data.users[u].lastActivity = now - SweepMs
  /\ Statistics.totalUsers = 2

\* C21: a sweep that deletes at least one session starts exactly one save,
\* of the store without the deleted sessions, however many it deleted; a
\* sweep that deletes none starts no save.
C21_SweepSavesOnce ==
  [][ SweepStep
      => IF DOMAIN data'.users # DOMAIN data.users
         THEN /\ writes \subseteq writes'
              /\ Cardinality(writes' \ writes) = 1
              /\ \A w \in writes' \ writes :
                   /\ w.call.op = "cleanupInactiveUsers" /\ w.call.id = ncalls'
                   /\ w.snapshot = Stringify(data')
         ELSE /\ writes' = writes
              /\ disk' = disk
              /\ ret'.outcome = "ok" ]_vars

\* two sessions deleted by one sweep, one save in flight
C21_Witness ==
  /\ created[1] = 1 /\ created[2] = 1 /\ Ready /\ Sessions = {}
  /\ ret.op = "cleanupInactiveUsers" /\ ret.outcome = "pending"
  /\ Cardinality(writes) = 1
  /\ \A w \in writes : w.call.op = "cleanupInactiveUsers"

\* C22: a session leaves the store only in a sweep step, and only when its
\* lastActivity is before the sweep's cutoff; no other step, a failing one
\* included, removes a session.
C22_OnlySweepDestroys ==
  [][ \A u \in UserIds :
        (u \in Sessions /\ u \notin Sessions')
        => /\ SweepStep
           /\ data.users[u].lastActivity < now - SweepMs ]_vars

\* a clearHistory whose save failed: the session is still there
C22_Witness ==
  /\ ret.op = "clearHistory" /\ ret.found /\ ret.outcome = "writeError"
  /\ ret.id = ncalls
  /\ ret.uid \in Sessions

\* C23: the sweep is serialized with the other mutations: a sweep never runs
\* while the save of another mutating method is in flight, and no other
\* mutating method is called while the save of a sweep is in flight.
C23_SweepSerialized ==
  [][ /\ SweepStep => \A w \in writes : w.call.op \notin MutatingOps
      /\ \A u \in UserIds :
           \A op \in MutatingOps \ {"cleanupInactiveUsers"} :
             (IsCall(op, u) /\ Ready)
             => \A w \in writes : w.call.op # "cleanupInactiveUsers" ]_vars

\* the messages of a history that are handed to the model
NonSystem(messages) == SelectSeq(messages, LAMBDA m : m.role # "system")

\* C24: the history handed to the model is the instruction turn (role user),
\* then the acknowledgment turn (role model), then the messages whose role is
\* not system, in their order, user as user and assistant as model: 2 plus
\* the number of non-system messages in all.
C24_PromptShape ==
  chat.history # << >>
  => /\ Len(chat.history) = 2 + Len(NonSystem(chat.messages))
     /\ chat.history[1].role = "user"
     /\ Len(chat.history[1].parts) = 1
     /\ Head(chat.history[1].parts[1].text) \in
          { DefaultPersona } \cup
          { chat.customPrompt[k] : k \in DOMAIN chat.customPrompt \cap {"persona"} }
     /\ chat.history[2] = [role |-> "model", parts |-> << [text |-> AckText] >>]
     /\ \A i \in 1..Len(NonSystem(chat.messages)) :
          /\ chat.history[2 + i].parts = << [text |-> NonSystem(chat.messages)[i].content] >>
          /\ NonSystem(chat.messages)[i].role = "user"
             => chat.history[2 + i].role = "user"
          /\ NonSystem(chat.messages)[i].role = "assistant"
             => chat.history[2 + i].role = "model"

\* system, user, assistant has become instruction, acknowledgment, user, model
C24_Witness ==
  /\ Len(chat.messages) = 3
  /\ chat.messages[1].role = "system"
  /\ chat.messages[2].role = "user" /\ chat.messages[3].role = "assistant"
  /\ Len(chat.history) = 4
  /\ chat.history[3] = [role |-> "user", parts |-> << [text |-> 7] >>]
  /\ chat.history[4] = [role |-> "model", parts |-> << [text |-> 8] >>]

CreationKeys == {"chatId", "userId", "createdAt", "username", "firstName", "lastName"}
AtCreation(s) == [k \in (DOMAIN s) \cap CreationKeys |-> s[k]]

\* C26: while a session exists, no step changes its createdAt, chatId, userId,
\* username, firstName or lastName, whatever chatId and user info a later
\* getUserSession is called with.
C26_CreationFieldsFixed ==
  [][ \A u \in UserIds :
        (u \in Sessions /\ u \in Sessions')
        => AtCreation(data'.users[u]) = AtCreation(data.users[u]) ]_vars

\* a session created at the start from the group chat's profile, found again
\* by a later getUserSession
C26_Witness ==
  \E u \in Sessions :
    /\ ret.op = "getUserSession" /\ ret.uid = u /\ ret.found /\ ret.id = ncalls
    /\ created[u] = 1
    /\ now = StartTime + 1
    /\ data.users[u].lastActivity = now
    /\ data.users[u].createdAt = StartTime
    /\ data.users[u].chatId = 101 /\ data.users[u].firstName = "Max"

\* t is the last Len(t) elements of a
IsSuffix(t, a) ==
  /\ Len(t) <= Len(a)
  /\ t = SubSeq(a, Len(a) - Len(t) + 1, Len(a))

\* C27: with H >= 2, the messages of a history after index 0 are the last
\* ones appended to the session since its creation or last clearHistory,
\* unchanged and in the order they were appended, with no gap.
C27_HistoryIsSuffixOfAppends ==
  H >= 2 => \A u \in Sessions : IsSuffix(Tail(HistoryOf(u)), appended[u])

\* H = 2: of three messages appended, the history keeps the last one
C27_Witness ==
  \E u \in Sessions :
    /\ H = 2
    /\ Len(appended[u]) = 3
    /\ Len(HistoryOf(u)) = 2
    /\ HistoryOf(u)[2] = appended[u][3]

\* C28: the clock of the model never goes back (Tick), and along every
\* history the message timestamps never decrease, whatever the order in
\* which the handlers' calls and their saves interleave.
C28_TimestampsNonDecreasing ==
  \A u \in Sessions :
    \A i, j \in 1..Len(HistoryOf(u)) :
      i <= j => HistoryOf(u)[i].timestamp <= HistoryOf(u)[j].timestamp

\* a session loaded from the file is reset, and a message is added a
\* millisecond later while a save is still in flight
C28_Witness ==
  \E u \in Sessions :
    /\ data.users[u].createdAt < StartTime
    /\ Len(HistoryOf(u)) = 2
    /\ HistoryOf(u)[1] = SeedMessage(StartTime)
    /\ HistoryOf(u)[2].timestamp > StartTime
    /\ writes # {}

\* the call a creates the session of u and the call b, the next call and the
\* last one made, is getUserSession for u too
SessionRace(u, a, b) ==
  /\ a.op = "getUserSession" /\ a.uid = u /\ ~a.found
  /\ b.op = "getUserSession" /\ b.uid = u
  /\ b.id = a.id + 1 /\ b.id = ncalls

\* C29: a getUserSession for u that starts while the getUserSession that
\* created the session of u awaits its save finds that session: it creates
\* none, and totalUsers stays 1 above what the first call found; and when
\* the two calls return (their writes not failing), in either order, each
\* returns the session of u in the store, the same for both.
C29_RacingCallsShareSession ==
  [][ \A u \in UserIds :
        /\ \A w \in writes :
             ( /\ w.call.op = "getUserSession" /\ w.call.uid = u /\ ~w.call.found
               /\ w.call.id = ncalls
               /\ IsCall("getUserSession", u) )
             => /\ ret'.found
                /\ created' = created
                /\ DOMAIN data'.users = DOMAIN data.users
                /\ Untouched(data'.users[u]) = Untouched(data.users[u])
                /\ data'.statistics.totalUsers = w.call.before.totalUsers + 1
        /\ \A w, x \in writes :
             ( /\ SessionRace(u, w.call, x.call) \/ SessionRace(u, x.call, w.call)
               /\ Settles(w) /\ ret'.outcome = "ok" )
             => /\ data' = data
                /\ ret'.value = data.users[u]
        /\ \A w \in writes :
             ( /\ writes = {w}
               /\ SessionRace(u, w.call, ret) \/ SessionRace(u, ret, w.call)
               /\ ret.outcome = "ok"
               /\ Settles(w) /\ ret'.outcome = "ok" )
             => /\ data' = data
                /\ ret'.value = ret.value
                /\ ret'.value = data'.users[u]
                /\ data'.statistics.totalUsers
                   = (IF ret.found THEN w.call ELSE ret).before.totalUsers + 1 ]_vars

\* the second call has returned the session while the call that created it
\* still awaits its save; then that call returns it too
C29_Witness ==
  \E u \in Sessions :
    /\ writes = {} /\ ncalls = 2
    /\ ret.op = "getUserSession" /\ ret.uid = u /\ ret.id = 1 /\ ~ret.found
    /\ ret.outcome = "ok" /\ ret.value = data.users[u]
    /\ data.users[u].lastActivity > data.users[u].createdAt
    /\ Len(HistoryOf(u)) = 1
    /\ created[u] = 1
    /\ Statistics.totalUsers = ret.before.totalUsers + 1

\* C30: when no write fails, once no call awaits a save the document is the
\* serialization of the in-memory store.
C30_DocumentEqualsStore ==
  (Ready /\ writes = {} /\ ncalls > 0) => disk = Stringify(data)

\* C31: once initialize() has returned without throwing, whatever the stored
\* document held, no method call throws the uninitialized error.
C31_InitializedNeverUninitialized ==
  [][ (initPc = "done" /\ ncalls' = ncalls + 1)
      => ret'.outcome # "uninitialized" ]_vars

\* the history h holds an assistant message with no user message before it
OrphanReply(h) ==
  \E i \in 1..Len(h) :
    /\ h[i].role = "assistant"
    /\ \A j \in 1..(i - 1) : h[j].role # "user"

\* clearHistory for u ran after the exchange appended its user message and
\* before it appended its reply
ClearedInFlight(u) ==
  /\ exchange.uid = u
  /\ exchange.ask \notin Contents(appended[u])
  /\ exchange.call \in Contents(appended[u])

\* C32: when clearHistory for a user has run between the two appends of a
\* message exchange for that user, then once the exchange and the reset have
\* completed the history (H >= 3, so that nothing is trimmed) holds no
\* assistant message without an earlier user message.
C32_NoOrphanReply ==
  \A u \in Sessions :
    (exchange.pc = "done" /\ writes = {} /\ H >= 3 /\ ClearedInFlight(u))
    => ~OrphanReply(HistoryOf(u))

\* C33: when the generation fails, the handler changes nothing in the store
\* or the document and makes no further call: the user message it appended
\* is still the last message of the history (no reset having run since),
\* totalMessages still counts it, and no assistant message is appended then
\* or later.
C33_FailedGenerationKeepsUserMessage ==
  [][ /\ (exchange.pc = "generating" /\ exchange'.pc = "caught")
         => /\ data' = data /\ writes' = writes /\ disk' = disk /\ ncalls' = ncalls
            /\ \A u \in Sessions :
                 (exchange.uid = u /\ exchange.ask \in Contents(appended[u]))
                 => /\ Last(HistoryOf(u)').role = "user"
                    /\ Last(HistoryOf(u)').content = exchange.ask
                    /\ appendsFound' = 1
                    /\ data'.statistics.totalMessages
                       = BaseStatistics.totalMessages + appendsFound'
      /\ exchange.pc = "caught"
         => /\ exchange' = exchange
            /\ ~(ncalls' = ncalls + 1 /\ ret'.op = "addMessage") ]_vars

\* the generation has failed, every write has completed, and the history
\* ends with the user message of the exchange
C33_Witness ==
  \E u \in Sessions :
    /\ exchange.pc = "caught" /\ exchange.failedAt = "generate" /\ exchange.uid = u
    /\ writes = {}
    /\ Last(HistoryOf(u)).role = "user"
    /\ Last(HistoryOf(u)).content = exchange.ask
    /\ Statistics.totalMessages = BaseStatistics.totalMessages + 1
    /\ disk = Stringify(data)

====
